---- MODULE Spec2Model ----
(***************************************************************************)
(* AnnotatedAliasDetector (static_analysis/__init__.py): a recursive       *)
(* ast.NodeVisitor that follows imports and collects the fully qualified   *)
(* names that alias typing.Annotated.                                      *)
(*                                                                         *)
(* Dotted names ("pkg.types.Foo") are sequences of identifiers             *)
(* (<<"pkg","types","Foo">>): str.split(".") and ".".join are the two      *)
(* directions of that reading, f"{a}.{b}" is concatenation of sequences,   *)
(* and f"{a}{b}" (no dot) is concatenation of two identifiers into one.    *)
(* The source text of a unit is input: a unit's statements are drawn one   *)
(* at a time, in textual order, while the unit is visited.                 *)
(***************************************************************************)
EXTENDS Integers, Sequences, FiniteSets, TLC

VARIABLES
    pc,                 \* "run" | "done" (visit returned) | "error" (an exception reached the caller)
    stack,              \* activations: the entry unit's visit, then one per visit_module in progress
    current_module,     \* self.current_module (None is <<>>)
    current_dir,        \* self.current_dir
    visited_modules,    \* self.visited_modules
    annotated_aliases,  \* self.annotated_aliases
    symbol_def_graph,   \* self.symbol_def_graph
    entered,            \* history: how many times each unit's statement sequence was entered
    nread,              \* how many statements of the source text have been read
    scn,                \* history: the scenario programs the statements read so far still match
    pos,                \* history: statements read from each unit while a scenario still matches
    call                \* a call of one of the module-level functions: its arguments and outcome

vars == <<pc, stack, current_module, current_dir, visited_modules,
          annotated_aliases, symbol_def_graph, entered, nread, scn, pos, call>>

-----------------------------------------------------------------------------
(* Bounds *)

\* statements read in one run, over all units
MaxStmts == 4
\* nesting of visit_module activations explored (the entry visit included)
MaxDepth == 4
\* dotted components of the current module handed to get_abs_module
MaxParts == 3
\* relative import level handed to get_abs_module
MaxLevel == 3

-----------------------------------------------------------------------------
(* Names *)

None == <<>>
NoName == ""

builtin_modules == {"typing", "os"}

\* the marker's name with another spelling
Marker_misspelt == <<"typing", "annotated">>

Marker == <<"typing", "Annotated">>

\* f"{self.current_module}.{name}" when current_module is set, else name
Qualify(cm, id) == IF cm # None THEN cm \o <<id>> ELSE <<id>>

\* parts[:-k] for k >= 1
DropLast(parts, k) ==
    IF Len(parts) > k THEN SubSeq(parts, 1, Len(parts) - k) ELSE <<>>

\* a resolver that drops `level` components instead of level - 1
get_abs_module_dropping_level(cm, module, level) ==
    DropLast(cm, level) \o module

get_abs_module(cm, module, level) ==
    LET parts == cm
        kept  == IF level > 1 THEN DropLast(parts, level - 1) ELSE parts
    IN  kept \o module

\* a call of get_abs_module: the value it returns, or the exception it raises
\* (the assert on level; None.split when there is no current module)
get_abs_module_call(cm, module, level) ==
    IF level < 1
    THEN [exc |-> "AssertionError", value |-> None]
    ELSE IF cm = None
         THEN [exc |-> "AttributeError", value |-> None]
         ELSE [exc |-> "", value |-> get_abs_module(cm, module, level)]

NoCall == [fn |-> "", args |-> << >>, done |-> FALSE, out |-> [exc |-> "", value |-> None]]

-----------------------------------------------------------------------------
(* The module finder and the file system (importlib.util.find_spec)        *)

Units == { <<"pkg">>, <<"pkg", "types">> }

\* "unit": a spec whose origin ends in .py; "nonsource": a spec with another
\* origin; "notfound": find_spec returned None or raised ModuleNotFoundError
Locate(m) ==
    CASE m \in Units     -> "unit"
      [] m = <<"ext">>   -> "nonsource"
      [] OTHER           -> "notfound"

Origin(m) ==
    CASE m = <<"pkg">>          -> <<"site", "pkg", "__init__.py">>
      [] m = <<"pkg", "types">> -> <<"site", "pkg", "types.py">>
      [] OTHER                  -> <<"site">> \o m

Parent(path) == DropLast(path, 1)

Cwd == <<"cwd">>

-----------------------------------------------------------------------------
(* get_module_from_path and get_path_for_relative_import. These two read   *)
(* file names, so here a path is the sequence of its segments below the    *)
(* root and a segment is the sequence of the pieces of its name, the       *)
(* substring ".py" being a piece of its own: "bar.py" is <<"bar", ".py">>. *)

PyExt == ".py"

InitPy == <<"__init__", PyExt>>

\* Path.name: the last segment, the empty name for the root
PathName(path) == IF path = << >> THEN << >> ELSE path[Len(path)]

\* part.endswith(".py")
EndsWithPy(name) == name # << >> /\ name[Len(name)] = PyExt

IsNotPyExt(piece) == piece # PyExt

\* part.replace(".py", ""): every occurrence goes
RemovePy(name) == SelectSeq(name, IsNotPyExt)

\* the string the pieces of a name spell
RECURSIVE Glue(_)
Glue(name) == IF name = << >> THEN "" ELSE Head(name) \o Glue(Tail(name))

\* the loop of get_module_from_path: the parts in the order they are appended
RECURSIVE module_parts(_, _)
module_parts(path, n) ==
    IF n = 0
    THEN << >>
    ELSE LET part == PathName(path)
         IN  << Glue(IF EndsWithPy(part) THEN RemovePy(part) ELSE part) >>
                 \o module_parts(Parent(path), n - 1)

\* reversed(parts)
Reversed(parts) == [i \in 1 .. Len(parts) |-> parts[Len(parts) + 1 - i]]

\* get_module_from_path that does not step out of __init__.py
get_module_from_path_keeping_init(path, level) == Reversed(module_parts(path, level))

get_module_from_path(path, level) ==
    LET start == IF PathName(path) = InitPy THEN Parent(path) ELSE path
    IN  Reversed(module_parts(start, level))

get_module_from_path_call(path, level) ==
    IF level < 1
    THEN [exc |-> "AssertionError", value |-> None]
    ELSE [exc |-> "", value |-> get_module_from_path(path, level)]

\* the directories base_path / d for d in dirs
Descend(base_path, dirs) == base_path \o [i \in 1 .. Len(dirs) |-> <<dirs[i]>>]

\* fs: the paths that exist
get_path_for_relative_import(fs, cwd, module_name, level) ==
    LET start        == IF level - 1 >= 1 THEN Parent(cwd) ELSE cwd
        dirs         == SubSeq(module_name, 1, Len(module_name) - 1)
        name         == module_name[Len(module_name)]
        base_path    == Descend(start, dirs)
        package_path == base_path \o << <<name>>, InitPy >>
        module_path  == base_path \o << <<name, PyExt>> >>
    IN  IF package_path \in fs
        THEN [exc |-> "", value |-> package_path]
        ELSE IF module_path \in fs
             THEN [exc |-> "", value |-> module_path]
             ELSE [exc |-> "FileNotFoundError", value |-> None]

get_path_for_relative_import_call(fs, cwd, module_name, level) ==
    IF level < 1
    THEN [exc |-> "AssertionError", value |-> None]
    ELSE get_path_for_relative_import(fs, cwd, module_name, level)

-----------------------------------------------------------------------------
(* Syntax trees (ast nodes)                                                *)

Name(id)              == [e |-> "Name", id |-> id]
Attribute(base, attr) == [e |-> "Attribute", value |-> base, attr |-> attr]
Subscript(base, args) == [e |-> "Subscript", value |-> base, slice |-> args]
Tuple(elts)           == [e |-> "Tuple", elts |-> elts]
Constant              == [e |-> "Constant"]

alias(name, asname) == [name |-> name, asname |-> asname]

Import(names) == [s |-> "Import", names |-> names]
ImportFrom(module, names, level) ==
    [s |-> "ImportFrom", module |-> module, names |-> names, level |-> level]
Assign(targets, value) == [s |-> "Assign", targets |-> targets, value |-> value]
Pass == [s |-> "Pass"]

\* identifiers bound and read in the units
Ids == {"Annotated", "Foo", "X"}

SliceArgs == {"int", "meta"}

ValueExprs ==
    { Name(id) : id \in Ids }
    \cup { Subscript(Name("Annotated"), a) : a \in SliceArgs }
    \cup { Subscript(Name("Foo"), "int"),
           Subscript(Attribute(Name("pkg"), "Foo"), "int"),
           Attribute(Name("pkg"), "Foo"),
           Attribute(Name("typing"), "Annotated"),
           Attribute(Attribute(Name("pkg"), "types"), "Foo"),
           Constant }

\* targets[0] is a Name
NameTargets == { <<Name("Foo")>>, <<Name("X")>>, <<Name("X"), Name("Foo")>> }

\* targets[0] is a tuple pattern or an attribute
PatternTargets ==
    { <<Tuple(<<Name("Foo"), Name("X")>>)>>, <<Attribute(Name("pkg"), "Foo")>> }

AssignStmts ==
    { Assign(t, v) : t \in NameTargets, v \in ValueExprs }
    \cup { Assign(t, v) : t \in PatternTargets,
                          v \in { Name("Annotated"), Name("X"), Constant,
                                  Tuple(<<Name("Annotated"), Name("Foo"), Name("X")>>) } }

ImportStmts ==
    { Import(<<alias(m, NoName)>>) :
        m \in { <<"pkg">>, <<"pkg", "types">>, <<"typing">>, <<"missing">>, <<"ext">> } }
    \cup { Import(<<alias(<<"pkg">>, "X")>>),
           Import(<<alias(<<"missing">>, NoName), alias(<<"pkg">>, NoName)>>),
           Import(<<alias(<<"pkg">>, NoName), alias(<<"pkg", "types">>, NoName)>>) }

FromTargets ==
    { <<<<"pkg">>, 0>>, <<<<"pkg", "types">>, 0>>, <<<<"typing">>, 0>>,
      <<<<"typing", "io">>, 0>>,
      <<<<"missing">>, 0>>, <<<<"ext">>, 0>>, <<<<"os">>, 0>>,
      <<<<"types">>, 1>>, <<<<"missing">>, 1>>, <<<<"types">>, 2>>,
      <<None, 1>> }

FromNames ==
    { <<alias("Annotated", NoName)>>, <<alias("Foo", NoName)>>,
      <<alias("Annotated", "X")>>, <<alias("Annotated", NoName), alias("Foo", NoName)>> }

ImportFromStmts == { ImportFrom(t[1], n, t[2]) : t \in FromTargets, n \in FromNames }

-----------------------------------------------------------------------------
(* AnnotatedAliasDetector.visit_module, up to the point where it either    *)
(* returns without visiting or starts visiting the located unit            *)

Outcome(act, name, visited) == [act |-> act, name |-> name, visited |-> visited]

\* visit_module without the two "already visited" returns
visit_module_unmemoized(cm, visited, module, level) ==
    IF level >= 1
    THEN IF cm = None
         THEN Outcome("raise", None, visited)
         ELSE LET abs_module == get_abs_module(cm, module, level)
              IN  IF Locate(abs_module) = "unit"
                  THEN Outcome("visit", abs_module, visited \cup {abs_module})
                  ELSE Outcome("return", abs_module, visited \cup {abs_module})
    ELSE IF Head(module) \in builtin_modules
         THEN Outcome("return", module, visited)
         ELSE IF Locate(module) = "unit"
              THEN Outcome("visit", module, visited \cup {module})
              ELSE Outcome("return", module, visited)

\* "raise": get_abs_module(None, ...) fails on None.split
visit_module(cm, visited, module, level) ==
    IF level >= 1
    THEN IF cm = None
         THEN Outcome("raise", None, visited)
         ELSE LET abs_module == get_abs_module(cm, module, level)
              IN  IF abs_module \in visited
                  THEN Outcome("return", abs_module, visited)
                  ELSE IF Locate(abs_module) = "unit"
                       THEN Outcome("visit", abs_module, visited \cup {abs_module})
                       ELSE Outcome("return", abs_module, visited \cup {abs_module})
    ELSE IF Head(module) \in builtin_modules
         THEN Outcome("return", module, visited)
         ELSE IF module \in visited
              THEN Outcome("return", module, visited)
              ELSE IF Locate(module) = "unit"
                   THEN Outcome("visit", module, visited \cup {module})
                   ELSE Outcome("return", module, visited)

-----------------------------------------------------------------------------
(* visit_Import: the loop over node.names from position i, up to the next  *)
(* unit to visit or the end of the handler                                 *)

RECURSIVE import_loop(_, _, _, _)
import_loop(cm, visited, names, i) ==
    IF i > Len(names)
    THEN [act |-> "done", name |-> None, visited |-> visited, next |-> i]
    ELSE LET module == names[i].name
         IN  IF Head(module) \in builtin_modules
             THEN import_loop(cm, visited, names, i + 1)
             ELSE LET out == visit_module(cm, visited, module, 0)
                  IN  IF out.act = "visit"
                      THEN [act |-> "visit", name |-> out.name,
                            visited |-> out.visited, next |-> i + 1]
                      ELSE import_loop(cm, out.visited, names, i + 1)

-----------------------------------------------------------------------------
(* visit_ImportFrom after visit_module has returned full_module            *)

RECURSIVE import_names(_, _, _, _, _)
import_names(aliases, cm, full_module, names, i) ==
    IF i > Len(names)
    THEN aliases
    ELSE LET n == names[i]
             base_module == Head(full_module)
         IN  IF base_module = "typing" /\ n.name # "Annotated"
             THEN import_names(aliases, cm, full_module, names, i + 1)
             ELSE LET sym_name == Qualify(cm, n.name)
                      import_sym_name == full_module \o <<n.name>>
                      a1 == IF import_sym_name \in aliases \/ import_sym_name = Marker
                            THEN aliases \cup {sym_name}
                            ELSE aliases
                      a2 == IF n.asname # NoName /\ sym_name \in a1
                            THEN a1 \cup {Qualify(cm, n.asname)}
                            ELSE a1
                  IN  import_names(a2, cm, full_module, names, i + 1)

finish_ImportFrom(aliases, cm, full_module, names) ==
    LET base_module == Head(full_module)
    IN  IF base_module # "typing" /\ base_module \in builtin_modules
        THEN aliases
        ELSE import_names(aliases, cm, full_module, names, 1)

-----------------------------------------------------------------------------
(* visit_Assign                                                            *)

\* a branch end that discards the target whatever the value is
rebind_discarding(aliases, target_name, value_name) == aliases \ {target_name}

\* the add / discard that ends each of the three branches
rebind(aliases, target_name, value_name) ==
    IF value_name \in aliases
    THEN aliases \cup {target_name}
    ELSE aliases \ {target_name}

Result(raise, aliases) == [raise |-> raise, aliases |-> aliases]

\* visit_Assign without the branch for a subscripted name
visit_Assign_without_subscript(aliases, cm, node) ==
    LET target == node.targets[1]
        value  == node.value
    IN  IF target.e # "Name"
        THEN Result(FALSE, aliases)
        ELSE LET target_name == Qualify(cm, target.id)
             IN  IF value.e = "Name"
                 THEN Result(FALSE, rebind(aliases, target_name, Qualify(cm, value.id)))
                 ELSE IF value.e = "Attribute"
                 THEN IF value.value.e # "Name"
                      THEN Result(TRUE, aliases)
                      ELSE Result(FALSE, rebind(aliases, target_name,
                                                Qualify(cm, value.value.id \o value.attr)))
                 ELSE Result(FALSE, aliases)

visit_Assign(aliases, cm, node) ==
    LET target == node.targets[1]
        value  == node.value
    IN  IF target.e # "Name"
        THEN Result(FALSE, aliases)
        ELSE LET target_name == Qualify(cm, target.id)
             IN  IF value.e = "Name"
                 THEN Result(FALSE, rebind(aliases, target_name, Qualify(cm, value.id)))
                 ELSE IF value.e = "Subscript" /\ value.value.e = "Name"
                 THEN Result(FALSE, rebind(aliases, target_name, Qualify(cm, value.value.id)))
                 ELSE IF value.e = "Attribute"
                 THEN IF value.value.e # "Name"
                      THEN Result(TRUE, aliases)
                      ELSE Result(FALSE, rebind(aliases, target_name,
                                                Qualify(cm, value.value.id \o value.attr)))
                 ELSE Result(FALSE, aliases)

-----------------------------------------------------------------------------
(* Scenario programs: the source text of every unit, for end-to-end cases. *)
(* scn holds the scenarios whose text agrees with every statement read so  *)
(* far and with every unit end reached so far.                             *)

FromTyping == ImportFrom(<<"typing">>, <<alias("Annotated", NoName)>>, 0)
FromTypingAsX == ImportFrom(<<"typing">>, <<alias("Annotated", "X")>>, 0)
BindFoo == << FromTyping, Assign(<<Name("Foo")>>, Subscript(Name("Annotated"), "int")) >>
PatternFooX == <<Tuple(<<Name("Foo"), Name("X")>>)>>

\* the text of every unit: an entry text, and the texts of pkg and pkg.types
Text(entry, pkg, types) ==
    [u \in Units \cup {None} |->
        IF u = None THEN entry ELSE IF u = <<"pkg">> THEN pkg ELSE types]

\* `X = value` visited when X is in the AliasSet
Reassign(value) == Text(<< FromTypingAsX, Assign(<<Name("X")>>, value) >>, << >>, << >>)

Programs ==
    [ reexport_int |->
        Text(<< ImportFrom(<<"pkg">>, <<alias("Foo", NoName)>>, 0) >>,
             << ImportFrom(<<"types">>, <<alias("Foo", NoName)>>, 1) >>,
             BindFoo),
      reexport_meta |->
        Text(<< ImportFrom(<<"pkg">>, <<alias("Foo", NoName)>>, 0) >>,
             << ImportFrom(<<"types">>, <<alias("Foo", NoName)>>, 1) >>,
             << FromTyping, Assign(<<Name("Foo")>>, Subscript(Name("Annotated"), "meta")) >>),
      attr |->
        Text(<< Import(<<alias(<<"pkg">>, NoName)>>),
                Assign(<<Name("X")>>, Attribute(Name("pkg"), "Foo")) >>,
             BindFoo, << >>),
      attr_marker |->
        Text(<< Import(<<alias(<<"typing">>, NoName)>>),
                Assign(<<Name("X")>>, Attribute(Name("typing"), "Annotated")) >>,
             << >>, << >>),
      chain |->
        Text(<< FromTyping, Assign(<<Name("Foo")>>, Name("Annotated")) >>, << >>, << >>),
      chain_reversed |->
        Text(<< Assign(<<Name("Foo")>>, Name("Annotated")), FromTyping >>, << >>, << >>),
      revoke_name      |-> Reassign(Name("Foo")),
      revoke_subscript |-> Reassign(Subscript(Name("Foo"), "int")),
      revoke_attribute |-> Reassign(Attribute(Name("pkg"), "Foo")),
      revoke_literal   |-> Reassign(Constant),
      destructure_alias |->
        Text(<< FromTyping, Assign(PatternFooX, Name("Annotated")) >>, << >>, << >>),
      destructure_other |->
        Text(<< FromTypingAsX, Assign(PatternFooX, Constant) >>, << >>, << >>),
      destructure_arity |->
        Text(<< FromTypingAsX,
                Assign(PatternFooX, Tuple(<<Name("Annotated"), Name("Foo"), Name("X")>>)) >>,
             << >>, << >>),
      missing_from |->
        Text(<< FromTyping, ImportFrom(<<"missing">>, <<alias("Foo", NoName)>>, 0) >>,
             << >>, << >>),
      missing_as |->
        Text(<< FromTyping, ImportFrom(<<"missing">>, <<alias("Annotated", "X")>>, 0) >>,
             << >>, << >>),
      missing_import |->
        Text(<< FromTyping, Import(<<alias(<<"missing">>, NoName)>>) >>, << >>, << >>),
      missing_relative |->
        Text(<< Import(<<alias(<<"pkg">>, NoName)>>) >>,
             << FromTyping, ImportFrom(<<"missing">>, <<alias("Foo", NoName)>>, 1) >>,
             << >>),
      rebind_import |->
        Text(<< FromTyping, ImportFrom(<<"missing">>, <<alias("Annotated", NoName)>>, 0) >>,
             << >>, << >>),
      opaque_import |->
        Text(<< Import(<<alias(<<"ext">>, NoName)>>) >>, << >>, << >>),
      opaque_from |->
        Text(<< ImportFrom(<<"os">>, <<alias("Foo", NoName)>>, 0) >>, << >>, << >>),
      typing_sub |->
        Text(<< ImportFrom(<<"typing", "io">>, <<alias("Annotated", NoName)>>, 0) >>,
             << >>, << >>),
      import_as |->
        Text(<< FromTypingAsX >>, << >>, << >>),
      typing_filter |->
        Text(<< ImportFrom(<<"typing">>,
                           <<alias("Annotated", NoName), alias("Foo", NoName)>>, 0) >>,
             << >>, << >>),
      none_from |->
        Text(<< FromTyping, ImportFrom(None, <<alias("Annotated", "X")>>, 1) >>,
             << >>, << >>),
      revisit |->
        Text(<< ImportFrom(<<"pkg", "types">>, <<alias("Annotated", NoName)>>, 0),
                ImportFrom(<<"pkg">>, <<alias("Annotated", NoName)>>, 0) >>,
             << ImportFrom(<<"types">>, <<alias("Annotated", NoName)>>, 1) >>,
             << FromTyping >>),
      cycle |->
        Text(<< Import(<<alias(<<"pkg">>, NoName)>>) >>,
             << ImportFrom(<<"types">>, <<alias("Foo", NoName)>>, 1) >>,
             << ImportFrom(<<"pkg">>, <<alias("Foo", NoName)>>, 0),
                Import(<<alias(<<"pkg", "types">>, NoName)>>) >>) ]

Scenarios == DOMAIN Programs

Program(sc) == Programs[sc]

\* the scenarios that have stmt as statement number k of unit u
AgreeOnStmt(S, u, k, stmt) ==
    { sc \in S : k <= Len(Program(sc)[u]) /\ Program(sc)[u][k] = stmt }

\* the scenarios in which unit u has exactly k statements
AgreeOnEnd(S, u, k) == { sc \in S : Len(Program(sc)[u]) = k }

-----------------------------------------------------------------------------
(* The traversal                                                           *)

\* an activation that saves the context after current_module was overwritten
Frame_saving_late(module, old_module, old_dir, cont) ==
    [module |-> module, old_current_module |-> module,
     old_current_dir |-> old_dir, cont |-> cont]

Frame(module, old_module, old_dir, cont) ==
    [module |-> module, old_current_module |-> old_module,
     old_current_dir |-> old_dir, cont |-> cont]

Cont(stmt, i) == [stmt |-> stmt, i |-> i]

Top == stack[Len(stack)]

NoPos == [u \in Units \cup {None} |-> 0]

\* AnnotatedAliasDetector() followed by analyzer.visit(node) on the entry tree
Init ==
    /\ pc = "run"
    /\ stack = << Frame(None, None, Cwd, Cont(Pass, 0)) >>
    /\ current_module = None
    /\ current_dir = Cwd
    /\ visited_modules = {}
    /\ annotated_aliases = {}
    /\ symbol_def_graph = << >>
    /\ entered = [u \in Units |-> 0]
    /\ nread = 0
    /\ scn = Scenarios
    /\ pos = NoPos
    /\ call = NoCall

\* a statement can be read from the unit being visited
CanRead ==
    /\ pc = "run"
    /\ Len(stack) >= 1
    /\ Len(stack) <= MaxDepth
    /\ nread < MaxStmts

Read(stmt) ==
    /\ nread' = nread + 1
    /\ scn' = AgreeOnStmt(scn, Top.module, pos[Top.module] + 1, stmt)
    /\ pos' = IF scn' = {} THEN NoPos ELSE [pos EXCEPT ![Top.module] = @ + 1]

\* the end of the unit on top of the stack is reached
ReadEnd ==
    /\ nread' = nread
    /\ scn' = AgreeOnEnd(scn, Top.module, pos[Top.module])
    /\ pos' = IF scn' = {} THEN NoPos ELSE pos

\* visit_module starts visiting unit `name` on behalf of statement stmt
Enter(name, stmt, i) ==
    /\ stack' = Append(stack, Frame(name, current_module, current_dir, Cont(stmt, i)))
    /\ current_module' = name
    /\ current_dir' = Parent(Origin(name))
    /\ entered' = [entered EXCEPT ![name] = @ + 1]

VisitPass ==
    /\ CanRead
    /\ Read(Pass)
    /\ stack' = stack
    /\ UNCHANGED <<pc, current_module, current_dir, visited_modules,
                   annotated_aliases, symbol_def_graph, entered, call>>

VisitAssign(node) ==
    /\ CanRead
    /\ stack' = stack
    /\ LET r == visit_Assign(annotated_aliases, current_module, node)
       IN  /\ pc' = IF r.raise THEN "error" ELSE pc
           /\ annotated_aliases' = r.aliases
    /\ UNCHANGED <<current_module, current_dir, visited_modules,
                   symbol_def_graph, entered, call>>
    /\ Read(node)

VisitImport(node) ==
    /\ CanRead
    /\ LET r == import_loop(current_module, visited_modules, node.names, 1)
       IN  /\ visited_modules' = r.visited
           /\ IF r.act = "visit"
              THEN Enter(r.name, node, r.next)
              ELSE /\ stack' = stack
                   /\ UNCHANGED <<current_module, current_dir, entered>>
    /\ UNCHANGED <<pc, annotated_aliases, symbol_def_graph, call>>
    /\ Read(node)

\* a handler without the test of node.module
no_module_never(node) == FALSE

\* `not node.module`
no_module(node) == node.module = None

VisitImportFrom(node) ==
    /\ CanRead
    /\ IF no_module(node)
       THEN /\ stack' = stack
            /\ UNCHANGED <<pc, current_module, current_dir, visited_modules,
                           annotated_aliases, entered>>
       ELSE LET r == visit_module(current_module, visited_modules, node.module, node.level)
            IN  CASE r.act = "raise" ->
                       /\ pc' = "error"
                       /\ stack' = stack
                       /\ UNCHANGED <<current_module, current_dir, visited_modules,
                                      annotated_aliases, entered>>
                  [] r.act = "return" ->
                       /\ visited_modules' = r.visited
                       /\ annotated_aliases' =
                              finish_ImportFrom(annotated_aliases, current_module,
                                                r.name, node.names)
                       /\ stack' = stack
                       /\ UNCHANGED <<pc, current_module, current_dir, entered>>
                  [] r.act = "visit" ->
                       /\ visited_modules' = r.visited
                       /\ Enter(r.name, node, 0)
                       /\ UNCHANGED <<pc, annotated_aliases>>
    /\ UNCHANGED <<symbol_def_graph, call>>
    /\ Read(node)

\* the unit's last statement was visited: visit_module restores the context
\* and returns, and the handler that called it runs on
EndModule ==
    /\ pc = "run"
    /\ Len(stack) >= 2
    /\ Len(stack) <= MaxDepth
    /\ ReadEnd
    /\ LET f      == Top
           caller == SubSeq(stack, 1, Len(stack) - 1)
           node   == f.cont.stmt
       IN  IF node.s = "ImportFrom"
           THEN /\ stack' = caller
                /\ current_module' = f.old_current_module
                /\ current_dir' = f.old_current_dir
                /\ annotated_aliases' =
                       finish_ImportFrom(annotated_aliases, f.old_current_module,
                                         f.module, node.names)
                /\ UNCHANGED <<visited_modules, entered>>
           ELSE LET r == import_loop(f.old_current_module, visited_modules,
                                     node.names, f.cont.i)
                IN  /\ visited_modules' = r.visited
                    /\ IF r.act = "visit"
                       THEN /\ stack' = Append(caller,
                                           Frame(r.name, f.old_current_module,
                                                 f.old_current_dir, Cont(node, r.next)))
                            /\ current_module' = r.name
                            /\ current_dir' = Parent(Origin(r.name))
                            /\ entered' = [entered EXCEPT ![r.name] = @ + 1]
                       ELSE /\ stack' = caller
                            /\ current_module' = f.old_current_module
                            /\ current_dir' = f.old_current_dir
                            /\ UNCHANGED entered
                    /\ UNCHANGED annotated_aliases
    /\ UNCHANGED <<pc, symbol_def_graph, call>>

\* the entry tree's last statement was visited: analyzer.visit returns
Finish ==
    /\ pc = "run"
    /\ Len(stack) = 1
    /\ ReadEnd
    /\ pc' = "done"
    /\ stack' = << >>
    /\ UNCHANGED <<current_module, current_dir, visited_modules,
                   annotated_aliases, symbol_def_graph, entered, call>>

Next ==
    \/ VisitPass
    \/ \E node \in AssignStmts : VisitAssign(node)
    \/ \E node \in ImportStmts : VisitImport(node)
    \/ \E node \in ImportFromStmts : VisitImportFrom(node)
    \/ EndModule
    \/ Finish

Spec == Init /\ [][Next]_vars

\* the interpreter keeps running the visitor until analyzer.visit returns or raises
FairSpec == Spec /\ WF_vars(Next)

-----------------------------------------------------------------------------
(* The module-level functions called on their own                          *)

PartIds == {"numpy", "core"}

\* dotted names of at most n components
RECURSIVE DottedUpTo(_)
DottedUpTo(n) ==
    IF n = 0
    THEN { << >> }
    ELSE LET shorter == DottedUpTo(n - 1)
         IN  shorter \cup { Append(d, p) : d \in { x \in shorter : Len(x) = n - 1 }, p \in PartIds }

ResolverCalls ==
    { [fn |-> "get_abs_module", args |-> <<cm, m, l>>, done |-> FALSE, out |-> NoCall.out] :
        cm \in DottedUpTo(MaxParts),
        m \in { <<"_multiarray_umath">>, <<"lib", "mixins">> },
        l \in -1 .. MaxLevel }

\* directory names and file names of the paths handed to get_module_from_path
DirNames == { <<"module_a">>, <<"foo">>, <<"bar">> }

LeafNames == { InitPy, <<"bar", PyExt>>, <<"foo", PyExt>> }

\* directories of at most n segments
RECURSIVE DirsUpTo(_)
DirsUpTo(n) ==
    IF n = 0
    THEN { << >> }
    ELSE LET shorter == DirsUpTo(n - 1)
         IN  shorter \cup { Append(d, x) : d \in { y \in shorter : Len(y) = n - 1 },
                                           x \in DirNames }

PathCalls ==
    { [fn |-> "get_module_from_path", args |-> <<Append(d, leaf), l>>,
       done |-> FALSE, out |-> NoCall.out] :
        d \in DirsUpTo(MaxParts), leaf \in LeafNames, l \in -1 .. MaxLevel }

\* the directory tree of the get_path_for_relative_import tests
WorkDir == << <<"cwd">> >>
ModuleADir == Append(WorkDir, <<"module_a">>)
NestedDir == Append(ModuleADir, <<"nested">>)

\* the files that may exist in it
CandidateFiles ==
    { Append(WorkDir, <<"types", PyExt>>),
      Append(ModuleADir, <<"types", PyExt>>),
      Append(ModuleADir, <<"nested", PyExt>>),
      Append(NestedDir, InitPy),
      Append(NestedDir, <<"types", PyExt>>) }

RelativeCalls ==
    { [fn |-> "get_path_for_relative_import", args |-> <<fs, cwd, m, l>>,
       done |-> FALSE, out |-> NoCall.out] :
        fs \in SUBSET CandidateFiles,
        cwd \in { WorkDir, ModuleADir, NestedDir },
        m \in { <<"types">>, <<"nested">>, <<"module_a", "types">> },
        l \in -1 .. MaxLevel }

FunctionsInit ==
    /\ pc = "done"
    /\ stack = << >>
    /\ current_module = None
    /\ current_dir = Cwd
    /\ visited_modules = {}
    /\ annotated_aliases = {}
    /\ symbol_def_graph = << >>
    /\ entered = [u \in Units |-> 0]
    /\ nread = 0
    /\ scn = {}
    /\ pos = NoPos
    /\ call \in ResolverCalls \cup PathCalls \cup RelativeCalls

CallGetAbsModule ==
    /\ call.fn = "get_abs_module"
    /\ ~call.done
    /\ call' = [call EXCEPT !.done = TRUE,
                            !.out = get_abs_module_call(call.args[1], call.args[2], call.args[3])]
    /\ UNCHANGED <<pc, stack, current_module, current_dir, visited_modules,
                   annotated_aliases, symbol_def_graph, entered, nread, scn, pos>>

CallGetModuleFromPath ==
    /\ call.fn = "get_module_from_path"
    /\ ~call.done
    /\ call' = [call EXCEPT !.done = TRUE,
                            !.out = get_module_from_path_call(call.args[1], call.args[2])]
    /\ UNCHANGED <<pc, stack, current_module, current_dir, visited_modules,
                   annotated_aliases, symbol_def_graph, entered, nread, scn, pos>>

CallGetPathForRelativeImport ==
    /\ call.fn = "get_path_for_relative_import"
    /\ ~call.done
    /\ call' = [call EXCEPT !.done = TRUE,
                            !.out = get_path_for_relative_import_call(
                                        call.args[1], call.args[2], call.args[3], call.args[4])]
    /\ UNCHANGED <<pc, stack, current_module, current_dir, visited_modules,
                   annotated_aliases, symbol_def_graph, entered, nread, scn, pos>>

FunctionsNext ==
    \/ CallGetAbsModule
    \/ CallGetModuleFromPath
    \/ CallGetPathForRelativeImport

FunctionsSpec == FunctionsInit /\ [][FunctionsNext]_vars

-----------------------------------------------------------------------------
(* AnnotatedAliasDetector.get_root_name called on its own, one iteration   *)
(* of its while loop per step                                              *)

\* the symbols of the graphs handed to get_root_name
GraphSyms == { <<"Foo">>, <<"pkg", "Foo">>, <<"pkg", "types", "Foo">> }

\* self.symbol_def_graph.get(name)
graph_get(graph, name) == IF name \in DOMAIN graph THEN graph[name] ELSE None

\* the call is at the top of the loop with `name`; prev_name is bound or not;
\* odd tells an odd number of iterations from an even one
RootCalls ==
    { [fn |-> "get_root_name", args |-> <<graph, name>>, done |-> FALSE,
       out |-> NoCall.out, name |-> name, prev_name |-> None, bound |-> FALSE,
       odd |-> FALSE] :
        graph \in [GraphSyms -> GraphSyms \cup {None}],
        name \in GraphSyms \cup { <<"X">>, None } }

RootInit ==
    /\ pc = "done"
    /\ stack = << >>
    /\ current_module = None
    /\ current_dir = Cwd
    /\ visited_modules = {}
    /\ annotated_aliases = {}
    /\ symbol_def_graph = << >>
    /\ entered = [u \in Units |-> 0]
    /\ nread = 0
    /\ scn = {}
    /\ pos = NoPos
    /\ call \in RootCalls

\* while name: prev_name = name; name = self.symbol_def_graph.get(name)
RootLoop ==
    /\ call.fn = "get_root_name"
    /\ ~call.done
    /\ call.name # None
    /\ call' = [call EXCEPT !.prev_name = call.name,
                            !.bound = TRUE,
                            !.odd = ~call.odd,
                            !.name = graph_get(call.args[1], call.name)]
    /\ UNCHANGED <<pc, stack, current_module, current_dir, visited_modules,
                   annotated_aliases, symbol_def_graph, entered, nread, scn, pos>>

\* return prev_name
RootReturn ==
    /\ call.fn = "get_root_name"
    /\ ~call.done
    /\ call.name = None
    /\ call' = [call EXCEPT !.done = TRUE,
                            !.out = IF call.bound
                                    THEN [exc |-> "", value |-> call.prev_name]
                                    ELSE [exc |-> "UnboundLocalError", value |-> None]]
    /\ UNCHANGED <<pc, stack, current_module, current_dir, visited_modules,
                   annotated_aliases, symbol_def_graph, entered, nread, scn, pos>>

RootNext == RootLoop \/ RootReturn

\* the interpreter keeps running the loop
RootSpec == RootInit /\ [][RootNext]_vars /\ WF_vars(RootNext)

-----------------------------------------------------------------------------
(* Properties                                                              *)

\* analyzer.visit returned and the units read were exactly those of scenario sc
Ran(sc) == pc = "done" /\ sc \in scn

\* the symbol an assignment to a plain name binds
TargetSym(node) == Qualify(current_module, node.targets[1].id)

\* C1: with pkg.types binding Foo to Annotated[...] (Annotated imported from
\* typing), pkg doing `from .types import Foo` and the entry unit doing
\* `from pkg import Foo`, the AliasSet after the entry unit is visited contains
\* Foo, pkg.Foo and pkg.types.Foo.
C1_ReexportChain ==
    \A sc \in {"reexport_int", "reexport_meta"} :
        Ran(sc) => { <<"Foo">>, <<"pkg", "Foo">>, <<"pkg", "types", "Foo">> }
                       \subseteq annotated_aliases

C1_ReexportVisited ==
    /\ Ran("reexport_meta")
    /\ visited_modules = { <<"pkg">>, <<"pkg", "types">> }
    /\ entered = [u \in Units |-> 1]

\* C2: after `import M` and `X = M.A` in the entry unit, with M.A the marker's
\* canonical name or a member of the AliasSet at that point, X is in the final
\* AliasSet.
C2_AttributeAfterImport ==
    \A sc \in {"attr", "attr_marker"} : Ran(sc) => <<"X">> \in annotated_aliases

BareValues ==
    { v \in ValueExprs : \/ v.e = "Name"
                         \/ v.e = "Subscript" /\ v.value.e = "Name" }

\* the identifier such a value is looked up by
BaseId(v) == IF v.e = "Name" THEN v.id ELSE v.value.id

\* every name an import-from takes from the AliasSet (or the marker itself) has
\* its local symbol in the AliasSet after the step
ImportedAliasesBound(cm, full_module, names) ==
    \A j \in 1 .. Len(names) :
        ( \/ full_module \o <<names[j].name>> \in annotated_aliases
          \/ full_module \o <<names[j].name>> = Marker )
            => Qualify(cm, IF names[j].asname # NoName THEN names[j].asname
                           ELSE names[j].name) \in annotated_aliases'

\* a step that visits one statement of the unit on top of the stack
StmtStep == pc = "run" /\ nread' = nread + 1

C4_Revocation ==
    \A sc \in {"revoke_name", "revoke_subscript", "revoke_attribute", "revoke_literal"} :
        Ran(sc) => <<"X">> \notin annotated_aliases

C6_Destructuring ==
    /\ Ran("destructure_alias") => {<<"Foo">>, <<"X">>} \subseteq annotated_aliases
    /\ \A sc \in {"destructure_other", "destructure_arity"} :
           Ran(sc) => {<<"Foo">>, <<"X">>} \cap annotated_aliases = {}

\* the module an import-from of (module, level) names, as visit_module resolves it
Resolved(module, level) ==
    IF level >= 1 THEN get_abs_module(current_module, module, level) ELSE module

\* the locator is asked for the module of an import-from of (module, level)
Locatable(module, level) ==
    /\ module # None
    /\ ~(level >= 1 /\ current_module = None)

\* the imports of a module that does not exist: the scenario, the unit whose
\* second statement is the import, and the local symbol the import binds
MissingCases ==
    { [sc |-> "missing_from",     unit |-> None,      local |-> <<"Foo">>],
      [sc |-> "missing_as",       unit |-> None,      local |-> <<"X">>],
      [sc |-> "missing_import",   unit |-> None,      local |-> <<"missing">>],
      [sc |-> "missing_relative", unit |-> <<"pkg">>, local |-> <<"pkg", "Foo">>] }

\* C7: an import or import-from (absolute or relative) of a module the locator
\* does not find raises nothing, does not add the imported local symbol to the
\* AliasSet, leaves the context unchanged, and the visit goes on with the
\* statements after it.
C7_UnresolvableImport ==
    \A c \in MissingCases :
        (c.sc \in scn /\ Len(stack) >= 1 /\ Top.module = c.unit /\ pos[c.unit] = 2)
            => /\ pc = "run"
               /\ current_module = c.unit
               /\ current_dir = (IF c.unit = None THEN Cwd ELSE Parent(Origin(c.unit)))
               /\ c.local \notin annotated_aliases

\* C8: a request to visit a module already in the VisitedSet (absolute or
\* relative) visits none of its statements and leaves the VisitedSet, the
\* ProvenanceGraph and the context unchanged (and the AliasSet, for a plain
\* import, which binds nothing); no unit's statements are entered twice.
C8_IdempotentRevisit ==
    [][ /\ \A u \in Units : entered'[u] <= 1
        /\ StmtStep =>
             /\ \A t \in FromTargets :
                  (Locatable(t[1], t[2]) /\ Resolved(t[1], t[2]) \in visited_modules)
                      => \/ /\ stack' = stack
                            /\ UNCHANGED <<pc, visited_modules, symbol_def_graph, entered,
                                           current_module, current_dir>>
                         \/ \A names \in FromNames :
                                ~VisitImportFrom(ImportFrom(t[1], names, t[2]))
             /\ \A node \in ImportStmts :
                  (\A i \in 1 .. Len(node.names) : node.names[i].name \in visited_modules)
                      => \/ /\ stack' = stack
                            /\ UNCHANGED <<pc, visited_modules, symbol_def_graph, entered,
                                           current_module, current_dir, annotated_aliases>>
                         \/ ~VisitImport(node)
      ]_vars

C8_SecondPathTaken ==
    /\ Ran("revisit")
    /\ entered = [u \in Units |-> 1]
    /\ <<"pkg", "Annotated">> \in annotated_aliases

Terminated == pc \in {"done", "error"}

\* C9: the traversal started at the entry unit terminates, units that import
\* each other in a cycle included.
C9_Termination == <>Terminated

C9_CycleVisited ==
    /\ Ran("cycle")
    /\ visited_modules = { <<"pkg">>, <<"pkg", "types">> }

\* C10: for level >= 1 and a current module of at least level - 1 components,
\* get_abs_module returns the current module without its last level - 1
\* components, followed by the target, joined with dots.
C10_AbsModule ==
    ( /\ call.fn = "get_abs_module"
      /\ call.done
      /\ call.args[1] # None
      /\ call.args[3] >= 1
      /\ Len(call.args[1]) >= call.args[3] - 1 )
        => /\ call.out.exc = ""
           /\ call.out.value =
                  [i \in 1 .. (Len(call.args[1]) - (call.args[3] - 1)) |-> call.args[1][i]]
                      \o call.args[2]

C10_LevelTwoResolved ==
    /\ call.done
    /\ call.args = << <<"numpy", "core", "numpy">>, <<"_multiarray_umath">>, 2 >>
    /\ call.out.value = <<"numpy", "core", "_multiarray_umath">>

\* C11: get_abs_module fails with an error (the specification's
\* InvalidLevelError; any exception is accepted here) and returns no module
\* name whenever level < 0 or the current module has fewer components than the
\* level - 1 that are to be dropped.
C11_InvalidLevel ==
    ( /\ call.fn = "get_abs_module"
      /\ call.done
      /\ call.args[1] # None
      /\ \/ call.args[3] < 0
         \/ Len(call.args[1]) < call.args[3] - 1 )
        => call.out.exc # ""

\* the unit's location: the package directory of .../bar/__init__.py, the
\* path without its .py suffix of .../bar.py
Stem(name) == IF EndsWithPy(name) THEN SubSeq(name, 1, Len(name) - 1) ELSE name

Location(path) ==
    IF PathName(path) = InitPy
    THEN Parent(path)
    ELSE Append(Parent(path), Stem(PathName(path)))

\* the last n segments of a location, root to leaf, as a dotted name
LastSegments(loc, n) == [i \in 1 .. n |-> Glue(loc[Len(loc) - n + i])]

\* C12: for level >= 1 (and a location of at least level segments)
\* get_module_from_path returns the last level segments of the unit's location
\* joined with dots, root to leaf; .../bar/__init__.py and .../bar.py under
\* the same directories give the same result.
C12_ModuleFromPath ==
    ( /\ call.fn = "get_module_from_path"
      /\ call.done
      /\ call.args[2] >= 1
      /\ call.args[2] <= Len(Location(call.args[1])) )
        => /\ call.out.exc = ""
           /\ call.out.value = LastSegments(Location(call.args[1]), call.args[2])
           /\ PathName(call.args[1]) = InitPy
                  => call.out.value =
                         get_module_from_path(
                             Append(Parent(Parent(call.args[1])),
                                    Append(PathName(Parent(call.args[1])), PyExt)),
                             call.args[2])

C12_PackagePathResolved ==
    /\ call.done
    /\ call.args = << << <<"module_a">>, <<"foo">>, <<"bar">>, InitPy >>, 3 >>
    /\ call.out.value = <<"module_a", "foo", "bar">>

\* base_path after ascending n parent levels
RECURSIVE Ascend(_, _)
Ascend(path, n) == IF n = 0 THEN path ELSE Ascend(Parent(path), n - 1)

\* C13: for level >= 1 get_path_for_relative_import looks the module up in the
\* directory level - 1 parents above cwd, descended through the dotted prefix
\* of module_name: it returns <name>/__init__.py if that exists, else
\* <name>.py if that exists, else raises FileNotFoundError.
C13_RelativeImportPath ==
    ( /\ call.fn = "get_path_for_relative_import"
      /\ call.done
      /\ call.args[4] >= 1 )
        => LET fs           == call.args[1]
               module_name  == call.args[3]
               anchor       == Descend(Ascend(call.args[2], call.args[4] - 1),
                                       SubSeq(module_name, 1, Len(module_name) - 1))
               name         == module_name[Len(module_name)]
               package_path == anchor \o << <<name>>, InitPy >>
               module_path  == Append(anchor, <<name, PyExt>>)
           IN  IF package_path \in fs
               THEN call.out = [exc |-> "", value |-> package_path]
               ELSE IF module_path \in fs
                    THEN call.out = [exc |-> "", value |-> module_path]
                    ELSE call.out.exc = "FileNotFoundError"

\* the directory that is current while the statements of module m are visited
DirOf(m) == IF m = None THEN Cwd ELSE Parent(Origin(m))

\* C14: while the statements of a module are visited (a child at any depth, or
\* the entry unit) current_module and current_dir are that module's; every
\* activation of visit_module holds the context of the module that called it,
\* so whenever visit_module returns (already visited, opaque, not found, not a
\* source unit, or visited to its end) the context is the one it was called in.
C14_ContextDiscipline ==
    /\ (pc = "run" /\ Len(stack) >= 1)
           => /\ current_module = Top.module
              /\ current_dir = DirOf(Top.module)
              /\ \A i \in 2 .. Len(stack) :
                     /\ stack[i].old_current_module = stack[i - 1].module
                     /\ stack[i].old_current_dir = DirOf(stack[i - 1].module)
    /\ pc = "done" => (current_module = None /\ current_dir = Cwd)

C14_ReturnedToCaller ==
    /\ pc = "run"
    /\ "reexport_int" \in scn
    /\ Len(stack) = 2
    /\ entered[<<"pkg", "types">>] = 1
    /\ current_module = <<"pkg">>
    /\ current_dir = <<"site", "pkg">>

\* the edges an import-from is to record: the scenario, the local symbol and
\* the imported symbol
ProvenanceCases ==
    { [sc |-> "chain",        local |-> <<"Annotated">>,  imported |-> Marker],
      [sc |-> "missing_from", local |-> <<"Foo">>,        imported |-> <<"missing", "Foo">>],
      [sc |-> "reexport_int", local |-> <<"pkg", "Foo">>, imported |-> <<"pkg", "types", "Foo">>] }

\* C15: after `from M import n [as c]` is visited, symbol_def_graph maps the
\* local symbol to the imported symbol, alias or not.
C15_ProvenanceRecorded ==
    \A c \in ProvenanceCases :
        Ran(c.sc) => /\ c.local \in DOMAIN symbol_def_graph
                     /\ symbol_def_graph[c.local] = c.imported

\* C16: after a statement that binds S is visited, S is in the AliasSet iff
\* what it was bound to is the marker or a member; an import-from that rebinds
\* a member to a symbol that is no alias removes it.
C16_AliasSetConsistent ==
    /\ Ran("chain") => {<<"Annotated">>, <<"Foo">>} \subseteq annotated_aliases
    /\ Ran("missing_from") => <<"Foo">> \notin annotated_aliases
    /\ Ran("rebind_import") => <<"Annotated">> \notin annotated_aliases

\* C17: after an import of a module that is built in, or whose origin is not a
\* source unit, the module is in visited_modules, none of its statements was
\* visited, and annotated_aliases and symbol_def_graph are as before.
C17_OpaqueVisited ==
    /\ Ran("opaque_import")
           => /\ <<"ext">> \in visited_modules
              /\ annotated_aliases = {}
              /\ symbol_def_graph = << >>
              /\ entered = [u \in Units |-> 0]
    /\ Ran("opaque_from")
           => /\ <<"os">> \in visited_modules
              /\ annotated_aliases = {}
              /\ symbol_def_graph = << >>
              /\ entered = [u \in Units |-> 0]

\* C18: visiting an import-from whose module is None raises nothing, resolves
\* and visits no module, and leaves annotated_aliases, symbol_def_graph,
\* visited_modules and the context unchanged.
C18_NoModuleNoOp ==
    [][ StmtStep =>
          \A t \in { x \in FromTargets : x[1] = None } :
              \A names \in FromNames :
                  \/ /\ stack' = stack
                     /\ UNCHANGED <<pc, current_module, current_dir, visited_modules,
                                    annotated_aliases, symbol_def_graph, entered>>
                  \/ ~VisitImportFrom(ImportFrom(t[1], names, t[2]))
      ]_vars

C18_NoModuleVisited ==
    /\ Ran("none_from")
    /\ annotated_aliases = { <<"Annotated">> }
    /\ visited_modules = {}

AnnotatedLocals(names) ==
    UNION { { Qualify(current_module, names[j].name) }
                \cup (IF names[j].asname # NoName
                      THEN { Qualify(current_module, names[j].asname) } ELSE {}) :
            j \in { k \in 1 .. Len(names) : names[k].name = "Annotated" } }

C20_RootResolution ==
    (call.args[2] # None)
        => <>( /\ call.done
               /\ call.out.exc = ""
               /\ graph_get(call.args[1], call.out.value) = None )

\* C21: an import-from adds a symbol only when the imported symbol is the
\* marker or a member of the AliasSet, and then only the locally bound name
\* (the asname when there is one); the alias status of the current module's
\* own symbol n has no effect on c.
C21_ImportFromAddsOnlyLocal ==
    /\ Ran("missing_as") => <<"X">> \notin annotated_aliases
    /\ Ran("import_as") => annotated_aliases = { <<"X">> }

====
